---- MODULE Spec2Model ----
(***************************************************************************)
(* Wake-cycle model of WeatherPaper_V1.ino (ESP32-C3 weather station).     *)
(* One behaviour is a sequence of wake cycles: setup() runs top to bottom, *)
(* enters deep sleep, and the timer wakes the chip again.  RTC_DATA_ATTR   *)
(* globals survive the sleep; every other global is re-initialised.        *)
(*                                                                         *)
(* Temperatures are fixed-point integers in hundredths of a degree         *)
(* (-1116 stands for -11.16).  Bitmaps are named by strings; "nullptr" is  *)
(* the null pointer.                                                       *)
(***************************************************************************)
EXTENDS Integers, Sequences, FiniteSets, TLC

VARIABLES
  pc,                    \* position of setup()
  savedTemp,             \* RTC_DATA_ATTR float savedTemp
  savedHumid,            \* RTC_DATA_ATTR int savedHumid
  icon,                  \* RTC_DATA_ATTR const unsigned char *icon
  wifi_timeout,          \* int wifi_timeout
  connection_to_wifi_ok, \* bool connection_to_wifi_ok
  temperature,           \* String temperature
  humidity,              \* String humidity
  date_and_time,         \* char date_and_time[20]
  battery_voltage,       \* int battery_voltage
  low_battery,           \* int low_battery
  wifi_status,           \* result of the last WiFi.status() poll
  wifi_torn_down,        \* WiFi.disconnect() was called in this cycle
  httpCode,              \* get_weather: int httpCode (0: no request issued)
  payload,               \* get_weather: the response body
  weatherOutcome,        \* branch get_weather took in this cycle
  syncOutcome,           \* result of getLocalTime in get_date_and_time
  screen,                \* what setup() has drawn into the display buffer
  commits,               \* display.display() calls of this cycle
  timer_armed,           \* esp_sleep_enable_timer_wakeup was called
  preTemp, preHumid, preIcon, \* the RTC values at the start of the cycle
  fetched,               \* some cycle since power-on took the parse-success branch
  lastFetch,             \* what the most recent parse-success branch stored
  lastSync,              \* string of the most recent successful time sync
  log                    \* the calls setup() has made in this cycle, in order

vars == << pc, savedTemp, savedHumid, icon, wifi_timeout, connection_to_wifi_ok,
           temperature, humidity, date_and_time, battery_voltage, low_battery,
           wifi_status, wifi_torn_down, httpCode, payload, weatherOutcome,
           syncOutcome, screen, commits, timer_armed,
           preTemp, preHumid, preIcon, fetched, lastFetch, lastSync, log >>

(***************************************************************************)
(* Program constants                                                       *)
(***************************************************************************)
TIME_TO_SLEEP == 1800
LOW_THRESHOLD == 758
MAX_WIFI_TIMEOUT == 8
DATE_AND_TIME_INIT == "2026/02/28-18:58:13"
\* line 253 appends a grave accent and F; a string of this module
\* cannot hold the grave accent, an apostrophe stands for it
RECOVERY_UNIT == "'F"
TITLE_DEFAULT == "Susan's Weather Station"
TITLE_LOW_BATTERY == "Low battery. Recharge now!"

(***************************************************************************)
(* Bounds of the environment                                               *)
(***************************************************************************)
\* network time readings are 1..MaxClock half-hour ticks
MaxClock == 2

Clock == 1..MaxClock
\* what struct tm may hold when getLocalTime did not succeed: the unset
\* clock (0) or any other value
StaleTm == 0..MaxClock

BatterySamples == {LOW_THRESHOLD - 1, LOW_THRESHOLD}
WifiStatuses == {"WL_CONNECTED", "WL_DISCONNECTED"}
\* HTTPClient::GET(): negative client errors, or the HTTP status
HttpCodes == {-11, -1, 200, 404}

\* A JSON field is <<>> when absent and <<v>> when present.
\* (temperatures avoid an exact tie in the second decimal)
JsonTemps == {<<>>, <<-1116>>, <<0>>, <<7226>>}
JsonHumids == {<<>>, <<0>>, <<79>>}
JsonIcons == {<<>>, <<"04n">>, <<"13d">>, <<"77x">>}
\* every code of the table, and codes outside it
IconCodes == {"01d", "01n", "02d", "02n", "03d", "03n", "04d", "04n", "09d", "09n",
              "10d", "10n", "11d", "11n", "13d", "13n", "50d", "50n",
              "77x", "01x", "04D", "50", "d", ""}

NoBody == [kind |-> "none", temp |-> <<>>, humidity |-> <<>>, icon |-> <<>>]
NotJson == [kind |-> "text", temp |-> <<>>, humidity |-> <<>>, icon |-> <<>>]
ErrorDoc == [kind |-> "json", temp |-> <<>>, humidity |-> <<>>, icon |-> <<>>]
JsonDocs == [kind : {"json"}, temp : JsonTemps, humidity : JsonHumids, icon : JsonIcons]
\* the bodies a response with status `code` can carry
Bodies(code) == IF code = 200 THEN JsonDocs \cup {NotJson} ELSE {ErrorDoc, NotJson}

\* what a char* that points outside its string literal may read as
WildText == {"", "?"}

(***************************************************************************)
(* Library conversions used by the sketch                                  *)
(***************************************************************************)
\* ArduinoJson: a missing member converts to 0 / 0.0 / "null"
AsNumber(f) == IF f = <<>> THEN 0 ELSE f[1]
AsString(f) == IF f = <<>> THEN "null" ELSE f[1]

\* String(float, 1) on hundredths: sign, magnitude rounded half up to tenths
StringFloat1Truncating(h) ==
  LET a == IF h < 0 THEN -h ELSE h
  IN (IF h < 0 THEN "-" ELSE "") \o ToString(a \div 100) \o "." \o ToString((a % 100) \div 10)

StringFloat1(h) ==
  LET a == IF h < 0 THEN -h ELSE h
      r == a + 5
  IN (IF h < 0 THEN "-" ELSE "") \o ToString(r \div 100) \o "." \o ToString((r % 100) \div 10)

\* String(int)
StringInt(n) == ToString(n)

Pad2(n) == IF n < 10 THEN "0" \o ToString(n) ELSE ToString(n)

\* strftime(date_and_time, 20, "%Y/%m/%d-%H:%M:%S", &timeinfo); tm 0 is the
\* unset clock, tm n > 0 is n half-hour ticks into 2026/03/01
Strftime(tm) ==
  IF tm = 0 THEN "1970/01/01-00:00:00"
  ELSE LET s == tm * TIME_TO_SLEEP
       IN "2026/03/01-" \o Pad2((s \div 3600) % 24) \o ":" \o Pad2((s \div 60) % 60)
            \o ":" \o Pad2(s % 60)

IconForTypo(icon_new) ==
  CASE icon_new \in {"01d", "01n"} -> "epd_bitmap_clear_sky"
    [] icon_new \in {"02d", "02n"} -> "epd_bitmap_few_clouds"
    [] icon_new \in {"03d", "03n"} -> "epd_bitmap_scattered_clouds"
    [] icon_new \in {"04d", "04n"} -> "epd_bitmap_broken_clouds"
    [] icon_new \in {"09d", "09n", "10n"} -> "epd_bitmap_shower_rain"
    [] icon_new \in {"10d"} -> "epd_bitmap_rain"
    [] icon_new \in {"11d", "11n"} -> "epd_bitmap_thunderstorm"
    [] icon_new \in {"13d", "13n"} -> "epd_bitmap_snow"
    [] icon_new \in {"50d", "50n"} -> "epd_bitmap_mist"
    [] OTHER -> "epd_bitmap_clear_sky"

IconForNoDefault(icon_new) ==
  CASE icon_new \in {"01d", "01n"} -> "epd_bitmap_clear_sky"
    [] icon_new \in {"02d", "02n"} -> "epd_bitmap_few_clouds"
    [] icon_new \in {"03d", "03n"} -> "epd_bitmap_scattered_clouds"
    [] icon_new \in {"04d", "04n"} -> "epd_bitmap_broken_clouds"
    [] icon_new \in {"09d", "09n"} -> "epd_bitmap_shower_rain"
    [] icon_new \in {"10d", "10n"} -> "epd_bitmap_rain"
    [] icon_new \in {"11d", "11n"} -> "epd_bitmap_thunderstorm"
    [] icon_new \in {"13d", "13n"} -> "epd_bitmap_snow"
    [] icon_new \in {"50d", "50n"} -> "epd_bitmap_mist"
    [] OTHER -> icon

\* the condition-code table of get_weather
IconFor(icon_new) ==
  CASE icon_new \in {"01d", "01n"} -> "epd_bitmap_clear_sky"
    [] icon_new \in {"02d", "02n"} -> "epd_bitmap_few_clouds"
    [] icon_new \in {"03d", "03n"} -> "epd_bitmap_scattered_clouds"
    [] icon_new \in {"04d", "04n"} -> "epd_bitmap_broken_clouds"
    [] icon_new \in {"09d", "09n"} -> "epd_bitmap_shower_rain"
    [] icon_new \in {"10d", "10n"} -> "epd_bitmap_rain"
    [] icon_new \in {"11d", "11n"} -> "epd_bitmap_thunderstorm"
    [] icon_new \in {"13d", "13n"} -> "epd_bitmap_snow"
    [] icon_new \in {"50d", "50n"} -> "epd_bitmap_mist"
    [] OTHER -> "epd_bitmap_clear_sky"

\* "!" + httpCode is pointer arithmetic on the literal {'!', 0}: offset 0 is
\* "!", offset 1 is the terminator, any other offset leaves the literal
ErrorMarkers(code) ==
  IF code = 0 THEN {"!"} ELSE IF code = 1 THEN {""} ELSE WildText

BlankScreen == [drawn |-> FALSE, warning |-> FALSE, title |-> "", stamp |-> "",
                temperature |-> "", humidity |-> "", icon |-> "nullptr"]
NoFetch == [temp |-> 0, humid |-> 0, icon |-> "nullptr", code |-> ""]

(***************************************************************************)
(* State after power-on: the initialisers of the globals                   *)
(***************************************************************************)
VolatileInit ==
  /\ wifi_timeout = 0
  /\ connection_to_wifi_ok = FALSE
  /\ temperature = ""
  /\ humidity = ""
  /\ date_and_time = DATE_AND_TIME_INIT
  /\ battery_voltage = 0
  /\ low_battery = 0

Init ==
  /\ pc = "boot"
  /\ savedTemp = 0
  /\ savedHumid = 0
  /\ icon = "nullptr"
  /\ VolatileInit
  /\ wifi_status = "WL_DISCONNECTED"
  /\ wifi_torn_down = FALSE
  /\ httpCode = 0
  /\ payload = NoBody
  /\ weatherOutcome = "none"
  /\ syncOutcome = "skipped"
  /\ screen = BlankScreen
  /\ commits = 0
  /\ timer_armed = FALSE
  /\ preTemp = 0 /\ preHumid = 0 /\ preIcon = "nullptr"
  /\ fetched = FALSE
  /\ lastFetch = NoFetch
  /\ lastSync = ""
  /\ log = <<>>

rtc == << savedTemp, savedHumid, icon >>
history == << preTemp, preHumid, preIcon, fetched, lastFetch, lastSync >>
cycleLocals == << wifi_status, wifi_torn_down, httpCode, payload, weatherOutcome,
                  syncOutcome, screen, commits, timer_armed >>

(***************************************************************************)
(* setup(), one action per step                                            *)
(***************************************************************************)
\* lines 175-192: LED off, display and serial initialised
Boot ==
  /\ pc = "boot"
  /\ UNCHANGED log
  /\ pc' = "battery"
  /\ UNCHANGED << rtc, wifi_timeout, connection_to_wifi_ok, temperature, humidity,
                  date_and_time, battery_voltage, low_battery, cycleLocals, history >>

IsLowInclusive(raw) == raw <= LOW_THRESHOLD

\* line 207
IsLow(raw) == raw < LOW_THRESHOLD

\* lines 194-211: one analogRead classifies the battery
BatteryCheck ==
  /\ pc = "battery"
  /\ log' = Append(log, "analogRead")
  /\ \E raw \in BatterySamples :
       /\ battery_voltage' = raw
       /\ low_battery' = IF IsLow(raw) THEN 1 ELSE 0
  /\ pc' = "wifi_begin"
  /\ UNCHANGED << rtc, wifi_timeout, connection_to_wifi_ok, temperature, humidity,
                  date_and_time, cycleLocals, history >>

\* lines 213-215: WiFi.begin(ssid, password)
WifiBegin ==
  /\ pc = "wifi_begin"
  /\ log' = Append(log, "WiFi.begin")
  /\ pc' = "wifi_poll"
  /\ UNCHANGED << rtc, wifi_timeout, connection_to_wifi_ok, temperature, humidity,
                  date_and_time, battery_voltage, low_battery, cycleLocals, history >>

GiveUp(n) == n > MAX_WIFI_TIMEOUT

\* lines 219-228: one evaluation of the while condition and, when not
\* connected, one pass through the loop body
WifiPoll ==
  /\ pc = "wifi_poll"
  /\ UNCHANGED log
  /\ \E s \in WifiStatuses :
       /\ wifi_status' = s
       /\ IF s = "WL_CONNECTED"
            THEN /\ pc' = "wifi_check"
                 /\ UNCHANGED << wifi_timeout, wifi_torn_down >>
            ELSE /\ wifi_timeout' = wifi_timeout + 1
                 /\ IF GiveUp(wifi_timeout')
                      THEN wifi_torn_down' = TRUE /\ pc' = "wifi_check"
                      ELSE wifi_torn_down' = wifi_torn_down /\ pc' = "wifi_poll"
  /\ UNCHANGED << rtc, connection_to_wifi_ok, temperature, humidity, date_and_time,
                  battery_voltage, low_battery, httpCode, payload, weatherOutcome,
                  syncOutcome, screen, commits, timer_armed, history >>

\* lines 231-232 and 243: the second WiFi.status() poll selects the branch
WifiCheck ==
  /\ pc = "wifi_check"
  /\ UNCHANGED log
  /\ \E s \in WifiStatuses :
       /\ wifi_status' = s
       /\ IF s = "WL_CONNECTED"
            THEN connection_to_wifi_ok' = TRUE /\ pc' = "get_weather"
            ELSE connection_to_wifi_ok' = connection_to_wifi_ok /\ pc' = "fallback"
  /\ UNCHANGED << rtc, wifi_timeout, temperature, humidity, date_and_time,
                  battery_voltage, low_battery, wifi_torn_down, httpCode, payload,
                  weatherOutcome, syncOutcome, screen, commits, timer_armed, history >>

TransportOkNonZero(code) == code # 0

\* line 341: the response is parsed when the code is positive
TransportOk(code) == code > 0

ParseOkUnchecked(body) == body.kind # "none"

\* line 348: deserializeJson reports no error
ParseOk(body) == body.kind = "json"

\* lines 349-383: the branch of a body that deserialised
StoreReading(body) ==
  LET temperature_new == AsNumber(body.temp)
      humidity_new == AsNumber(body.humidity)
      icon_new == AsString(body.icon)
  IN /\ savedTemp' = temperature_new
     /\ savedHumid' = humidity_new
     /\ icon' = IconFor(icon_new)
     /\ temperature' = StringFloat1(temperature_new) \o " F"
     /\ humidity' = StringInt(humidity_new) \o "%"
     /\ weatherOutcome' = "Success"
     /\ fetched' = TRUE
     /\ lastFetch' = [temp |-> temperature_new, humid |-> humidity_new,
                      icon |-> icon', code |-> icon_new]

StepAfterWeatherSkipsSync == "draw"

\* lines 236-240: the time sync follows get_weather
StepAfterWeather == "init_time_zone"

\* lines 333-398
get_weather ==
  /\ pc = "get_weather"
  /\ log' = Append(log, "get_weather")
  /\ \E code \in HttpCodes :
       /\ httpCode' = code
       /\ IF TransportOk(code)
            THEN \E body \in Bodies(code) :
                   /\ payload' = body
                   /\ IF ParseOk(body)
                        THEN StoreReading(body)
                        ELSE /\ temperature' = "!JSON"
                             /\ humidity' = "!JSON"
                             /\ weatherOutcome' = "ParseFailure"
                             /\ UNCHANGED << rtc, fetched, lastFetch >>
            ELSE \E marker \in ErrorMarkers(code) :
                   /\ temperature' = marker
                   /\ humidity' = marker
                   /\ weatherOutcome' = "NetworkFailure"
                   /\ UNCHANGED << rtc, payload, fetched, lastFetch >>
  /\ pc' = StepAfterWeather
  /\ UNCHANGED << wifi_timeout, connection_to_wifi_ok, date_and_time, battery_voltage,
                  low_battery, wifi_status, wifi_torn_down, syncOutcome, screen,
                  commits, timer_armed, preTemp, preHumid, preIcon, lastSync >>

\* lines 400-419: configTime, a getLocalTime whose result is ignored, setenv/tzset
init_and_set_time_zone ==
  /\ pc = "init_time_zone"
  /\ log' = Append(log, "init_and_set_time_zone")
  /\ pc' = "get_date_and_time"
  /\ UNCHANGED << rtc, wifi_timeout, connection_to_wifi_ok, temperature, humidity,
                  date_and_time, battery_voltage, low_battery, cycleLocals, history >>

\* lines 421-430: strftime runs whether or not getLocalTime succeeded
get_date_and_time ==
  /\ pc = "get_date_and_time"
  /\ log' = Append(log, "get_date_and_time")
  /\ \E ok \in BOOLEAN :
       IF ok
         THEN \E tm \in Clock :
                /\ date_and_time' = Strftime(tm)
                /\ lastSync' = Strftime(tm)
                /\ syncOutcome' = "ok"
         ELSE \E tm \in StaleTm :
                /\ date_and_time' = Strftime(tm)
                /\ lastSync' = lastSync
                /\ syncOutcome' = "failed"
  /\ pc' = "draw"
  /\ UNCHANGED << rtc, wifi_timeout, connection_to_wifi_ok, temperature, humidity,
                  battery_voltage, low_battery, wifi_status, wifi_torn_down, httpCode,
                  payload, weatherOutcome, screen, commits, timer_armed,
                  preTemp, preHumid, preIcon, fetched, lastFetch >>

NothingSavedEither == savedTemp = 0 \/ savedHumid = 0

\* line 244
NothingSaved == savedTemp = 0 /\ savedHumid = 0

\* lines 243-259: no connection, show what was saved
Fallback ==
  /\ pc = "fallback"
  /\ log' = Append(log, "recover")
  /\ IF NothingSaved
       THEN /\ temperature' = "N/A"
            /\ humidity' = "N/A"
            /\ icon' = "epd_bitmap_clear_sky"
       ELSE /\ temperature' = StringFloat1(savedTemp) \o RECOVERY_UNIT
            /\ humidity' = StringInt(savedHumid) \o "%"
            /\ icon' = icon
  /\ pc' = "draw"
  /\ UNCHANGED << savedTemp, savedHumid, wifi_timeout, connection_to_wifi_ok,
                  date_and_time, battery_voltage, low_battery, cycleLocals, history >>

WarningOnAnyFailure == connection_to_wifi_ok = FALSE \/ weatherOutcome # "Success"

\* line 270
WarningVisible == connection_to_wifi_ok = FALSE

\* lines 276-280
Title == IF low_battery = 1 THEN TITLE_LOW_BATTERY ELSE TITLE_DEFAULT

\* lines 264-301: the frame is composed in the display buffer.  drawBitmap
\* reads 512 bytes through icon; through a null pointer that read either
\* faults (the chip panics) or yields whatever is there.
Draw ==
  /\ pc = "draw"
  /\ log' = Append(log, "draw")
  /\ LET frame == [drawn |-> TRUE, warning |-> WarningVisible, title |-> Title,
                   stamp |-> date_and_time, temperature |-> temperature,
                   humidity |-> humidity, icon |-> icon]
     IN IF icon = "nullptr"
          THEN \E faults \in BOOLEAN :
                 IF faults
                   THEN screen' = frame /\ pc' = "panic"
                   ELSE screen' = [frame EXCEPT !.icon = "wild"] /\ pc' = "commit"
          ELSE screen' = frame /\ pc' = "commit"
  /\ UNCHANGED << rtc, wifi_timeout, connection_to_wifi_ok, temperature, humidity,
                  date_and_time, battery_voltage, low_battery, wifi_status,
                  wifi_torn_down, httpCode, payload, weatherOutcome, syncOutcome,
                  commits, timer_armed, history >>

\* line 304: display.display()
Commit ==
  /\ pc = "commit"
  /\ log' = Append(log, "display.display")
  /\ commits' = commits + 1
  /\ pc' = "power_off"
  /\ UNCHANGED << rtc, wifi_timeout, connection_to_wifi_ok, temperature, humidity,
                  date_and_time, battery_voltage, low_battery, wifi_status,
                  wifi_torn_down, httpCode, payload, weatherOutcome, syncOutcome,
                  screen, timer_armed, history >>

\* line 308: display.powerOff()
PowerOff ==
  /\ pc = "power_off"
  /\ log' = Append(log, "display.powerOff")
  /\ pc' = "arm_timer"
  /\ UNCHANGED << rtc, wifi_timeout, connection_to_wifi_ok, temperature, humidity,
                  date_and_time, battery_voltage, low_battery, cycleLocals, history >>

\* line 311: esp_sleep_enable_timer_wakeup(TIME_TO_SLEEP * uS_TO_S_FACTOR)
ArmTimer ==
  /\ pc = "arm_timer"
  /\ log' = Append(log, "esp_sleep_enable_timer_wakeup")
  /\ timer_armed' = TRUE
  /\ pc' = "deep_sleep"
  /\ UNCHANGED << rtc, wifi_timeout, connection_to_wifi_ok, temperature, humidity,
                  date_and_time, battery_voltage, low_battery, wifi_status,
                  wifi_torn_down, httpCode, payload, weatherOutcome, syncOutcome,
                  screen, commits, history >>

\* line 312: esp_deep_sleep_start() does not return
DeepSleep ==
  /\ pc = "deep_sleep"
  /\ log' = Append(log, "esp_deep_sleep_start")
  /\ pc' = "sleep"
  /\ UNCHANGED << rtc, wifi_timeout, connection_to_wifi_ok, temperature, humidity,
                  date_and_time, battery_voltage, low_battery, cycleLocals, history >>

FreshCycleKeepsCounter ==
  /\ wifi_timeout' = wifi_timeout
  /\ connection_to_wifi_ok' = FALSE
  /\ temperature' = ""
  /\ humidity' = ""
  /\ date_and_time' = DATE_AND_TIME_INIT
  /\ battery_voltage' = 0
  /\ low_battery' = 0
  /\ wifi_status' = "WL_DISCONNECTED"
  /\ wifi_torn_down' = FALSE
  /\ httpCode' = 0
  /\ payload' = NoBody
  /\ weatherOutcome' = "none"
  /\ syncOutcome' = "skipped"
  /\ screen' = BlankScreen
  /\ commits' = 0
  /\ timer_armed' = FALSE
  /\ log' = <<>>

\* what every start of setup() finds outside RTC memory
FreshCycle ==
  /\ wifi_timeout' = 0
  /\ connection_to_wifi_ok' = FALSE
  /\ temperature' = ""
  /\ humidity' = ""
  /\ date_and_time' = DATE_AND_TIME_INIT
  /\ battery_voltage' = 0
  /\ low_battery' = 0
  /\ wifi_status' = "WL_DISCONNECTED"
  /\ wifi_torn_down' = FALSE
  /\ httpCode' = 0
  /\ payload' = NoBody
  /\ weatherOutcome' = "none"
  /\ syncOutcome' = "skipped"
  /\ screen' = BlankScreen
  /\ commits' = 0
  /\ timer_armed' = FALSE
  /\ log' = <<>>

\* the wake timer fires: the chip restarts, RTC_DATA_ATTR globals keep their
\* values and all other globals get their initialisers
TimerWake ==
  /\ pc = "sleep"
  /\ timer_armed
  /\ pc' = "boot"
  /\ FreshCycle
  /\ preTemp' = savedTemp /\ preHumid' = savedHumid /\ preIcon' = icon
  /\ UNCHANGED << rtc, fetched, lastFetch, lastSync >>

\* a panic resets the chip: this is no deep-sleep wake, so the RTC_DATA_ATTR
\* globals get their initialisers as well
PanicReset ==
  /\ pc = "panic"
  /\ pc' = "boot"
  /\ FreshCycle
  /\ savedTemp' = 0 /\ savedHumid' = 0 /\ icon' = "nullptr"
  /\ preTemp' = 0 /\ preHumid' = 0 /\ preIcon' = "nullptr"
  /\ fetched' = FALSE /\ lastFetch' = NoFetch /\ lastSync' = ""

Next ==
  \/ Boot
  \/ BatteryCheck
  \/ WifiBegin
  \/ WifiPoll
  \/ WifiCheck
  \/ get_weather
  \/ init_and_set_time_zone
  \/ get_date_and_time
  \/ Fallback
  \/ Draw
  \/ Commit
  \/ PowerOff
  \/ ArmTimer
  \/ DeepSleep
  \/ TimerWake
  \/ PanicReset

Spec == Init /\ [][Next]_vars

\* setup() runs to completion once started and the armed timer fires
FairSpec == Spec /\ WF_vars(Next)

(***************************************************************************)
(* The success branch of get_weather on its own, for every condition code  *)
(***************************************************************************)
IconDocs == [kind : {"json"}, temp : JsonTemps, humidity : JsonHumids,
             icon : {<<>>} \cup {<<c>> : c \in IconCodes}]

\* first cycle after power-on, connected, a 200 response received
IconInit ==
  /\ pc = "parse"
  /\ savedTemp = 0 /\ savedHumid = 0 /\ icon = "nullptr"
  /\ wifi_timeout = 0
  /\ connection_to_wifi_ok = TRUE
  /\ temperature = "" /\ humidity = ""
  /\ date_and_time = DATE_AND_TIME_INIT
  /\ battery_voltage = LOW_THRESHOLD /\ low_battery = 0
  /\ wifi_status = "WL_CONNECTED"
  /\ wifi_torn_down = FALSE
  /\ httpCode = 200
  /\ payload \in IconDocs
  /\ weatherOutcome = "none"
  /\ syncOutcome = "skipped"
  /\ screen = BlankScreen
  /\ commits = 0
  /\ timer_armed = FALSE
  /\ preTemp = 0 /\ preHumid = 0 /\ preIcon = "nullptr"
  /\ fetched = FALSE
  /\ lastFetch = NoFetch
  /\ lastSync = ""
  /\ log = << "analogRead", "WiFi.begin" >>

ParseReceived ==
  /\ pc = "parse"
  /\ StoreReading(payload)
  /\ pc' = "parsed"
  /\ log' = Append(log, "get_weather")
  /\ UNCHANGED << wifi_timeout, connection_to_wifi_ok, date_and_time, battery_voltage,
                  low_battery, wifi_status, wifi_torn_down, httpCode, payload,
                  syncOutcome, screen, commits, timer_armed, preTemp, preHumid,
                  preIcon, lastSync >>

IconSpec == IconInit /\ [][ParseReceived]_vars

(***************************************************************************)
(* Claims                                                                  *)
(***************************************************************************)
\* the cycle's request got a positive code and its body deserialised
FetchSucceeded == httpCode > 0 /\ payload.kind = "json"
\* the body has main.temp, main.humidity and weather[0].icon
AllFieldsPresent == payload.temp # <<>> /\ payload.humidity # <<>> /\ payload.icon # <<>>
\* the cycle took the branch of a connected WiFi
Connected == connection_to_wifi_ok
RtcUnchanged == savedTemp = preTemp /\ savedHumid = preHumid /\ icon = preIcon

\* C1: every wake cycle, whatever the environment answers, eventually reaches
\* the deep-sleep entry with the wake timer armed.
C1_EveryCycleSleeps == [](pc = "boot" => <>(pc = "sleep" /\ timer_armed))

C3_MissingFieldIsParseFailure ==
  (httpCode > 0 /\ payload.kind = "json" /\ ~AllFieldsPresent) =>
     /\ weatherOutcome = "ParseFailure"
     /\ temperature = "!JSON"
     /\ savedTemp = preTemp /\ savedHumid = preHumid

\* C4: a negative client code or an HTTP status outside 2xx takes the
\* NetworkFailure branch: nothing is parsed and nothing persisted is written.
C4_NonSuccessStatusIsNetworkFailure ==
  (httpCode # 0 /\ httpCode \notin 200..299) =>
     /\ weatherOutcome = "NetworkFailure"
     /\ RtcUnchanged

\* C5: after a connected cycle whose body carried (temp, humidity, code), the
\* persisted reading is (temp, humidity) and the frame shows temp to one
\* decimal with " F", humidity with "%" and the icon of the code; -11.16, 79,
\* "04n" give "-11.2 F", "79%" and broken clouds.
C5_FreshReadingShownAndSaved ==
  (screen.drawn /\ Connected /\ FetchSucceeded /\ AllFieldsPresent) =>
     LET t == payload.temp[1]
         h == payload.humidity[1]
         c == payload.icon[1]
     IN /\ savedTemp = t /\ savedHumid = h
        /\ screen.temperature =
             (CASE t = -1116 -> "-11.2" [] t = 0 -> "0.0" [] t = 7226 -> "72.3"
                [] OTHER -> StringFloat1(t)) \o " F"
        /\ screen.humidity = (CASE h = 79 -> "79" [] h = 0 -> "0" [] OTHER -> ToString(h)) \o "%"
        /\ screen.icon = IconFor(c)
        /\ (t = -1116 /\ h = 79 /\ c = "04n") =>
              /\ screen.temperature = "-11.2 F"
              /\ screen.humidity = "79%"
              /\ screen.icon = "epd_bitmap_broken_clouds"

C5_Witness ==
  /\ pc = "sleep"
  /\ Connected /\ httpCode = 200
  /\ payload = [kind |-> "json", temp |-> <<-1116>>, humidity |-> <<79>>, icon |-> <<"04n">>]
  /\ screen.temperature = "-11.2 F"
  /\ savedTemp = -1116 /\ savedHumid = 79

\* C6: a frame drawn without connection shows "N/A", "N/A" and clear sky when
\* savedTemp = 0 and savedHumid = 0; otherwise it shows the saved temperature
\* to one decimal, the saved humidity with "%", and the icon stored by the
\* fetch that stored those two values.
C6_NoWifiShowsSavedReading ==
  (screen.drawn /\ ~Connected) =>
     IF preTemp = 0 /\ preHumid = 0
       THEN /\ screen.temperature = "N/A"
            /\ screen.humidity = "N/A"
            /\ screen.icon = "epd_bitmap_clear_sky"
       ELSE /\ screen.temperature =
                 (CASE preTemp = -1116 -> "-11.2" [] preTemp = 0 -> "0.0"
                    [] preTemp = 7226 -> "72.3" [] OTHER -> StringFloat1(preTemp))
                 \o RECOVERY_UNIT
            /\ screen.humidity = ToString(preHumid) \o "%"
            /\ fetched
            /\ lastFetch.temp = preTemp /\ lastFetch.humid = preHumid
            /\ screen.icon = lastFetch.icon

C6_Witness ==
  /\ screen.drawn /\ ~Connected
  /\ preTemp = 0 /\ preHumid = 79
  /\ screen.temperature = "0.0'F" /\ screen.humidity = "79%"
  /\ screen.icon = "epd_bitmap_snow"

\* C7: the persisted reading is (0, 0) exactly when no fetch has succeeded
\* since power-on, so after a success a frame drawn without connection never
\* shows "N/A".
C7_SentinelIffNeverFetched ==
  /\ (savedTemp = 0 /\ savedHumid = 0) <=> ~fetched
  /\ (screen.drawn /\ ~Connected /\ fetched) => screen.temperature # "N/A"

\* C8: when the cycle's time sync did not succeed, the frame's timestamp is
\* the string of the most recent successful sync, or the compiled-in
\* placeholder when there has been none.
C8_StampIsLastSync ==
  (screen.drawn /\ syncOutcome # "ok") =>
     screen.stamp = (IF lastSync = "" THEN DATE_AND_TIME_INIT ELSE lastSync)

\* C9: when drawing starts both texts are non-empty and icon is a bitmap; after
\* a connected cycle whose fetch failed, icon is the one of the most recent
\* successful fetch, or clear sky when there has been none.
C9_PayloadPopulated ==
  pc = "draw" =>
     /\ temperature # "" /\ humidity # ""
     /\ icon # "nullptr"
     /\ (Connected /\ ~FetchSucceeded) =>
           icon = (IF fetched THEN lastFetch.icon ELSE "epd_bitmap_clear_sky")

\* C10: the frame carries the warning glyph exactly when the cycle's WiFi
\* check found no connection, whatever the fetch, the time sync and the
\* battery did.
C10_WarningIffNoWifi ==
  screen.drawn => (screen.warning <=> wifi_status # "WL_CONNECTED")

C10_Witness ==
  /\ screen.drawn /\ ~screen.warning
  /\ wifi_status = "WL_CONNECTED"
  /\ weatherOutcome = "NetworkFailure" /\ syncOutcome = "failed" /\ low_battery = 1

\* the cycle has passed the WiFi.status() check of line 231
Decided == pc \notin {"boot", "battery", "wifi_begin", "wifi_poll", "wifi_check"}

\* C11: the frame's title is the low-battery message exactly when the cycle's
\* one battery sample is below 758 (757 low, 758 not low), whatever the
\* connection, fetch and time sync did.
C11_LowTitleIffBelowThreshold ==
  screen.drawn =>
     /\ screen.title \in {TITLE_LOW_BATTERY, TITLE_DEFAULT}
     /\ screen.title = TITLE_LOW_BATTERY <=> battery_voltage < 758
     /\ battery_voltage = 757 => screen.title = "Low battery. Recharge now!"
     /\ battery_voltage = 758 => screen.title = "Susan's Weather Station"

C11_Witness ==
  /\ screen.drawn /\ battery_voltage = 758 /\ screen.title = TITLE_DEFAULT
  /\ ~Connected /\ lastSync # "" /\ fetched

\* C12: the connect loop gives up after exactly 8 non-connected polls, never
\* makes a ninth, and calls WiFi.disconnect() when it gives up.
\* (wifi_timeout counts the loop's non-connected polls.)
C12_GivesUpAfterEightPolls ==
  /\ wifi_timeout <= 8
  /\ wifi_timeout = 8 => wifi_torn_down
  /\ (Decided /\ wifi_status # "WL_CONNECTED" /\ wifi_timeout >= 8) => wifi_torn_down

\* C13: with WiFi.status() free to change between polls, the cycle takes the
\* get_weather / time-sync branch exactly when the connect loop ended on a
\* connected poll, and the no-connection branch exactly when the loop gave up
\* and called WiFi.disconnect().
C13_BranchFollowsLoopResult ==
  Decided =>
     /\ Connected <=> ~wifi_torn_down
     /\ (weatherOutcome # "none" \/ pc = "get_weather") => ~wifi_torn_down
     /\ (screen.drawn /\ screen.warning) => wifi_torn_down

\* C15: after a connected cycle whose transport succeeded with a body that is
\* not JSON, both texts of the frame are "!JSON" (not "N/A") and savedTemp,
\* savedHumid and icon are as they were at wake-up.
C15_NotJsonShowsMarker ==
  (screen.drawn /\ Connected /\ httpCode > 0 /\ payload.kind = "text") =>
     /\ screen.temperature = "!JSON" /\ screen.humidity = "!JSON"
     /\ screen.temperature # "N/A"
     /\ RtcUnchanged

C15_Witness ==
  /\ pc = "sleep" /\ Connected /\ httpCode = 200 /\ payload = NotJson
  /\ screen.temperature = "!JSON" /\ screen.humidity = "!JSON"
  /\ preTemp = 7226 /\ savedTemp = 7226 /\ icon = "epd_bitmap_snow"

\* C19: after a connected cycle whose GET failed with code c, both texts of
\* the frame are "!" followed by c, which is neither "!JSON" nor "N/A".
C19_ErrorMarkerCarriesCode ==
  (screen.drawn /\ Connected /\ httpCode < 0) =>
     /\ screen.temperature = "!" \o ToString(httpCode)
     /\ screen.humidity = "!" \o ToString(httpCode)
     /\ screen.temperature \notin {"!JSON", "N/A"}

\* the icon the table is meant to give each family
Families == {"01", "02", "03", "04", "09", "10", "11", "13", "50"}
FamilyIcon(f) ==
  CASE f = "01" -> "epd_bitmap_clear_sky"
    [] f = "02" -> "epd_bitmap_few_clouds"
    [] f = "03" -> "epd_bitmap_scattered_clouds"
    [] f = "04" -> "epd_bitmap_broken_clouds"
    [] f = "09" -> "epd_bitmap_shower_rain"
    [] f = "10" -> "epd_bitmap_rain"
    [] f = "11" -> "epd_bitmap_thunderstorm"
    [] f = "13" -> "epd_bitmap_snow"
    [] f = "50" -> "epd_bitmap_mist"
InFamily(c, f) == c \in {f \o "d", f \o "n"}
ExpectedIcon(c) ==
  CASE c \in {"04d", "04n"} -> FamilyIcon("04")
    [] c \in {"13d", "13n"} -> FamilyIcon("13")
    [] OTHER -> "epd_bitmap_clear_sky"

\* C14: the table sends the "d" and "n" codes of each of the nine families to
\* that family's icon, different families to different icons, and every
\* other code to clear sky.
C14_IconTable ==
  pc = "parsed" =>
     LET c == IF payload.icon = <<>> THEN "null" ELSE payload.icon[1]
     IN /\ \A f \in Families : InFamily(c, f) => icon = FamilyIcon(f)
        /\ (\A f \in Families : ~InFamily(c, f)) => icon = "epd_bitmap_clear_sky"
        /\ Cardinality({FamilyIcon(f) : f \in Families}) = 9

C14_Witness ==
  /\ pc = "parsed" /\ payload.icon = <<"50n">> /\ icon = "epd_bitmap_mist"

\* C16: every cycle starts with wifi_timeout = 0, connection_to_wifi_ok =
\* false, low_battery = 0 and empty texts whatever happened before, so every
\* cycle is allowed the same number of polls before it gives up.
C16_EveryCycleStartsFresh ==
  /\ pc = "boot" =>
        /\ wifi_timeout = 0 /\ connection_to_wifi_ok = FALSE /\ low_battery = 0
        /\ temperature = "" /\ humidity = ""
  /\ pc \in {"battery", "wifi_begin"} => wifi_timeout = 0
  /\ wifi_torn_down <=> wifi_timeout = MAX_WIFI_TIMEOUT + 1
  /\ wifi_timeout <= MAX_WIFI_TIMEOUT + 1

\* a cycle that starts after a cycle that found no connection
C16_Witness ==
  /\ pc = "boot" /\ icon = "epd_bitmap_clear_sky" /\ ~fetched
  /\ wifi_timeout = 0 /\ temperature = ""

\* the calls of a cycle that found a connection, and of one that did not
ConnectedOrder ==
  << "analogRead", "WiFi.begin", "get_weather", "init_and_set_time_zone",
     "get_date_and_time", "draw", "display.display", "display.powerOff",
     "esp_sleep_enable_timer_wakeup", "esp_deep_sleep_start" >>
RecoveryOrder ==
  << "analogRead", "WiFi.begin", "recover", "draw", "display.display",
     "display.powerOff", "esp_sleep_enable_timer_wakeup", "esp_deep_sleep_start" >>
IsPrefix(p, q) == Len(p) <= Len(q) /\ p = SubSeq(q, 1, Len(p))

\* C17: in every cycle the battery is sampled before WiFi.begin and any other
\* network call; get_weather completes before the time sync starts; and the
\* frame is drawn only after the fetch and the time sync have both completed
\* or have both been skipped, with no network call after drawing began: the
\* calls made so far are always a prefix of one of the two orders above.
C17_StepsInOrder ==
  /\ IsPrefix(log, ConnectedOrder) \/ IsPrefix(log, RecoveryOrder)
  /\ screen.drawn =>
        \/ weatherOutcome # "none" /\ syncOutcome # "skipped"
        \/ weatherOutcome = "none" /\ syncOutcome = "skipped" /\ ~Connected
  /\ (battery_voltage = 0) => (log = <<>> /\ wifi_status = "WL_DISCONNECTED")

C17_Witness ==
  /\ pc = "sleep"
  /\ log = << "analogRead", "WiFi.begin", "get_weather", "init_and_set_time_zone",
              "get_date_and_time", "draw", "display.display", "display.powerOff",
              "esp_sleep_enable_timer_wakeup", "esp_deep_sleep_start" >>

\* C18: every cycle commits the frame exactly once and ends with
\* display.display(), display.powerOff(), the 1800-second timer wakeup and
\* esp_deep_sleep_start(), in that order, with nothing after it.
C18_OneCommitThenSleep ==
  /\ commits <= 1
  /\ TIME_TO_SLEEP = 1800
  /\ pc \in {"sleep", "panic"} =>
        /\ commits = 1
        /\ timer_armed
        /\ Len(log) >= 4
        /\ SubSeq(log, Len(log) - 3, Len(log)) =
             << "display.display", "display.powerOff",
                "esp_sleep_enable_timer_wakeup", "esp_deep_sleep_start" >>

\* the persisted values are those one successful parse stored together
SavedIsLastFetch ==
  /\ fetched
  /\ lastFetch.temp = savedTemp /\ lastFetch.humid = savedHumid
  /\ lastFetch.icon = icon
  /\ icon # "nullptr"
  /\ icon = ExpectedIcon(lastFetch.code)

====
